---- MODULE Spec2Model ----
(***************************************************************************)
(* claw-standup (src/index.js): one run of the standup report generator.   *)
(*                                                                         *)
(* Strings that the program or git inspects character by character (ISO    *)
(* calendar dates, directory names, author idents and patterns, note text) *)
(* are sequences of one-character strings.  Strings that are only copied   *)
(* (commit subjects, the AI command's streams) are TLA+ strings.  Instants *)
(* are whole hours since 1970-01-01T00:00Z.  A character that a string     *)
(* here cannot hold is written by its code point, "U+00A0".                *)
(***************************************************************************)
EXTENDS Integers, Sequences, FiniteSets, TLC

VARIABLES pc, cfg, clock, today, fs, git, notesFs, repos, idx, extracted, allCommits,
          memories, data, normalOut, gemini, output, stdout

vars == <<pc, cfg, clock, today, fs, git, notesFs, repos, idx, extracted, allCommits,
          memories, data, normalOut, gemini, output, stdout>>

(***************************************************************************)
(* Bounds of the model.                                                    *)
(***************************************************************************)
\* The largest --days value.
MaxDays == 3

\* The largest number of entries in the workspace directory.
MaxEntries == 2

\* The largest number of commits in the repositories of one workspace.
MaxCommits == 4

\* The longest time (hours) that passes during a run, or during one call that
\* is taken alone.
MaxElapsed == 1

(***************************************************************************)
(* Generic helpers.                                                        *)
(***************************************************************************)
Range(s) == {s[i] : i \in 1..Len(s)}

RECURSIVE Concat(_)
Concat(ss) == IF ss = <<>> THEN <<>> ELSE Head(ss) \o Concat(Tail(ss))

Reverse(s) == [i \in 1..Len(s) |-> s[Len(s) + 1 - i]]

\* f(v), v being computed once.
Apply(v, f(_)) == CHOOSE y \in {f(x) : x \in {v}} : TRUE

\* JavaScript's undefined, as the value of a record field that holds a
\* character sequence (a real character sequence has one-character elements).
Undefined == <<"undefined">>

\* JavaScript's undefined, as the value of a field that holds an opaque string.
UndefinedStr == "<undefined>"

(***************************************************************************)
(* Character strings and String.prototype.localeCompare.                   *)
(***************************************************************************)
Digits == <<"0", "1", "2", "3", "4", "5", "6", "7", "8", "9">>

\* The characters that occur in the compared strings, in collation order
\* (punctuation before digits before letters).
Alphabet == <<"-">> \o Digits \o <<"d", "e", "f", "i", "n", "u">>

Rank(c) == CHOOSE k \in 1..Len(Alphabet) : Alphabet[k] = c

\* ToString(v) as localeCompare applies it to its argument.
ToStr(v) ==
  IF v = Undefined
    THEN <<"u", "n", "d", "e", "f", "i", "n", "e", "d">>
    ELSE v

RECURSIVE localeCompare(_, _)
localeCompare(s, t) ==
  IF s = <<>> /\ t = <<>> THEN 0
  ELSE IF s = <<>> THEN -1
  ELSE IF t = <<>> THEN 1
  ELSE IF Rank(Head(s)) < Rank(Head(t)) THEN -1
  ELSE IF Rank(Head(s)) > Rank(Head(t)) THEN 1
  ELSE localeCompare(Tail(s), Tail(t))

(***************************************************************************)
(* Date: the civil calendar, local time and toISOString.                   *)
(***************************************************************************)
\* Day number (days since 1970-01-01) -> <<year, month, day of month>>.
CivilFromDays(z0) ==
  LET z   == z0 + 719468
      era == z \div 146097
      doe == z - era * 146097
      yoe == (doe - doe \div 1460 + doe \div 36524 - doe \div 146096) \div 365
      doy == doe - (365 * yoe + yoe \div 4 - yoe \div 100)
      mp  == (5 * doy + 2) \div 153
      d   == doy - (153 * mp + 2) \div 5 + 1
      m   == IF mp < 10 THEN mp + 3 ELSE mp - 9
      y   == yoe + era * 400 + (IF m <= 2 THEN 1 ELSE 0)
  IN <<y, m, d>>

\* MakeDay(year, month, date): the day number of the date-th day counted from
\* the first of the month; date may be zero or negative.
MakeDay(year, month, date) ==
  LET y   == IF month <= 2 THEN year - 1 ELSE year
      era == y \div 400
      yoe == y - era * 400
      mp  == IF month > 2 THEN month - 3 ELSE month + 9
      doy == (153 * mp + 2) \div 5
      doe == yoe * 365 + yoe \div 4 - yoe \div 100 + doy
  IN era * 146097 + doe - 719468 + (date - 1)

Pad2(n) == <<Digits[(n \div 10) + 1], Digits[(n % 10) + 1]>>

\* The YYYY-MM-DD text of a day number.
IsoOfDay(day) ==
  LET c == CivilFromDays(day)
  IN Pad2(c[1] \div 100) \o Pad2(c[1] % 100) \o <<"-">> \o Pad2(c[2]) \o <<"-">> \o Pad2(c[3])

\* d.toISOString().split('T')[0]: the UTC calendar date of an instant.
toISODate(t) == IsoOfDay(t \div 24)

\* The zone's offset from UTC (hours) in force at instant t.
OffsetAt(tz, t) == IF t < tz.switch THEN tz.before ELSE tz.after

\* LocalTime(t).
LocalTime(tz, t) == t + OffsetAt(tz, t)

\* UTC(local): a local time that occurs twice or never is read with the
\* offset in force before the transition.
UTCOf(tz, local) ==
  IF local - tz.before < tz.switch THEN local - tz.before
  ELSE IF local - tz.after >= tz.switch THEN local - tz.after
  ELSE local - tz.before

\* Date.prototype.getDate(): the local day of the month.
getDate(tz, t) == CivilFromDays(LocalTime(tz, t) \div 24)[3]

\* Date.prototype.setDate(dt) on a Date holding instant t.
setDate(tz, t, dt) ==
  LET local == LocalTime(tz, t)
      c     == CivilFromDays(local \div 24)
  IN UTCOf(tz, MakeDay(c[1], c[2], dt) * 24 + (local % 24))

\* The local calendar day number of "now".
Today(c) == LocalTime(c.tz, c.now) \div 24

(***************************************************************************)
(* The environment: time zones and clock readings.                         *)
(***************************************************************************)
\* 2024-04-01T00:00Z.
BaseInstant == 19814 * 24

TzUTC == [before |-> 0, after |-> 0, switch |-> 0]

\* Central European time around its 2024-03-31T01:00Z change to summer time.
TzBerlin == [before |-> 1, after |-> 2, switch |-> BaseInstant - 23]

\* Pacific daylight time.
TzLosAngeles == [before |-> -7, after |-> -7, switch |-> 0]

Zones == {TzUTC, TzBerlin, TzLosAngeles}

Instants == {BaseInstant - 1, BaseInstant, BaseInstant + 10, BaseInstant + 23}

Clocks == [now : Instants, tz : Zones]

\* What the clock may advance from one reading to the next (hours).
Ticks == {0, 1}

\* The instants that n readings in a row may give (new Date(), or the clock
\* of a git process) when the clock stands at t and no reading is later than
\* limit: every reading is at or after the one before.
RECURSIVE Readings(_, _, _)
Readings(t, n, limit) ==
  IF n = 0 THEN {<<>>}
  ELSE UNION {{<<t + k>> \o rs : rs \in Readings(t + k, n - 1, limit)} :
                k \in {x \in Ticks : t + x <= limit}}

(***************************************************************************)
(* ASCII.                                                                  *)
(***************************************************************************)
\* The printable characters of ASCII, from code 32 to code 126.
Ascii ==
  <<" ", "!", "\"", "#", "$", "%", "&", "'", "(", ")", "*", "+", ",", "-", ".", "/", "0",
      "1", "2", "3", "4", "5", "6", "7", "8", "9", ":", ";", "<", "=", ">", "?", "@", "A",
      "B", "C", "D", "E", "F", "G", "H", "I", "J", "K", "L", "M", "N", "O", "P", "Q", "R",
      "S", "T", "U", "V", "W", "X", "Y", "Z", "[", "\\", "]", "^", "_", "U+0060", "a", "b",
      "c", "d", "e", "f", "g", "h", "i", "j", "k", "l", "m", "n", "o", "p", "q", "r", "s",
      "t", "u", "v", "w", "x", "y", "z", "{", "|", "}", "~">>

\* A character that has no string of its own is written by its code point:
\* the vertical tab and the backtick.
VT == "U+000B"

Backtick == "U+0060"

ControlChars == {"\t", "\n", VT, "\f", "\r"}

AsciiChars == Range(Ascii) \cup ControlChars

CharCodes ==
  [c \in AsciiChars |->
     CASE c = "\t" -> 9
       [] c = "\n" -> 10
       [] c = VT -> 11
       [] c = "\f" -> 12
       [] c = "\r" -> 13
       [] c \in Range(Ascii) -> 31 + (CHOOSE k \in 1..Len(Ascii) : Ascii[k] = c)]

charCode(c) == CharCodes[c]

\* The characters from lo to hi.
between(lo, hi) ==
  {c \in AsciiChars : charCode(lo) <= charCode(c) /\ charCode(c) <= charCode(hi)}

\* strcmp(a, b) < 0.
RECURSIVE strcmpLess(_, _)
strcmpLess(a, b) ==
  IF b = <<>> THEN FALSE
  ELSE IF a = <<>> THEN TRUE
  ELSE IF Head(a) = Head(b) THEN strcmpLess(Tail(a), Tail(b))
  ELSE charCode(Head(a)) < charCode(Head(b))

(***************************************************************************)
(* Paths: a path is the sequence of its segments.                          *)
(***************************************************************************)
\* path.resolve(args.path || '.').
WORKSPACE == <<<<"h", "o", "m", "e">>, <<"a", "p", "p">>>>

\* path.join(dir, name).
join(dir, name) == Append(dir, name)

\* path.basename(p).
basename(p) == IF p = <<>> THEN <<>> ELSE p[Len(p)]

(***************************************************************************)
(* Repository Locator.                                                     *)
(***************************************************************************)
\* The marker of a repository.
DotGit == <<".", "g", "i", "t">>

NodeModules == <<"n", "o", "d", "e", "_", "m", "o", "d", "u", "l", "e", "s">>

ChildNames == {<<"a", "p", "p">>, <<"7">>, <<"c", "o", "n", "s", "t", "r", "u", "c", "t",
    "o", "r">>, DotGit, NodeModules}

\* One directory entry of the workspace: its name, whether it is a directory,
\* whether <entry>/.git exists, and whether a repository lies one level deeper
\* (<entry>/sub/.git).
Entries ==
  {e \in [name : ChildNames, isDir : BOOLEAN, git : BOOLEAN, nested : BOOLEAN] :
     ~e.isDir => (~e.git /\ ~e.nested)}

RECURSIVE EntryLists(_)
EntryLists(n) ==
  IF n = 0 THEN {<<>>}
  ELSE LET shorter == EntryLists(n - 1)
       IN shorter \cup
          {Append(s, e) : s \in {x \in shorter : Len(x) = n - 1}, e \in Entries}

\* fs.readdirSync lists the names in byte order.
Sorted(es) == \A i \in 1..(Len(es) - 1) : strcmpLess(es[i].name, es[i + 1].name)

\* A workspace directory: whether <root>/.git exists, whether the root can be
\* listed, and its entries as readdirSync returns them.
Workspaces ==
  {w \in [rootGit : BOOLEAN, listable : BOOLEAN, entries : EntryLists(MaxEntries)] :
     /\ Sorted(w.entries)
     /\ w.listable => (w.rootGit <=> \E i \in 1..Len(w.entries) : w.entries[i].name = DotGit)}

\* A scan that also descends into every directory it visits.
RECURSIVE scanEntriesDeep(_, _)
scanEntriesDeep(dir, es) ==
  IF es = <<>> THEN <<>>
  ELSE LET entry == Head(es)
           rest  == scanEntriesDeep(dir, Tail(es))
           here  == IF entry.isDir /\ entry.name # DotGit /\ entry.name # NodeModules
                       /\ entry.git
                      THEN <<join(dir, entry.name)>> ELSE <<>>
           below == IF entry.isDir /\ entry.nested
                      THEN <<join(join(dir, entry.name), <<"s", "u", "b">>)>> ELSE <<>>
       IN here \o below \o rest

\* The loop of getRepos over the directory entries.
RECURSIVE scanEntries(_, _)
scanEntries(dir, es) ==
  IF es = <<>> THEN <<>>
  ELSE LET entry == Head(es)
           rest  == scanEntries(dir, Tail(es))
       IN IF entry.isDir /\ entry.name # DotGit /\ entry.name # NodeModules /\ entry.git
            THEN <<join(dir, entry.name)>> \o rest
            ELSE rest

getRepos(w, dir) ==
  LET root == IF w.rootGit THEN <<dir>> ELSE <<>>
  IN IF ~w.listable THEN root ELSE root \o scanEntries(dir, w.entries)

(***************************************************************************)
(* The regular expressions of git log --author: POSIX basic regular        *)
(* expressions as regcomp compiles them, with the GNU operators.  A        *)
(* pattern with a back-reference, a collating symbol or an equivalence     *)
(* class has no value here.                                                *)
(***************************************************************************)
ClassNames ==
  {<<"a", "l", "p", "h", "a">>, <<"d", "i", "g", "i", "t">>, <<"a", "l", "n", "u", "m">>,
      <<"u", "p", "p", "e", "r">>, <<"l", "o", "w", "e", "r">>, <<"s", "p", "a", "c", "e">>,
   <<"b", "l", "a", "n", "k">>, <<"p", "u", "n", "c", "t">>, <<"p", "r", "i", "n", "t">>,
       <<"g", "r", "a", "p", "h">>, <<"c", "n", "t", "r", "l">>, <<"x", "d", "i", "g", "i",
       "t">>}

CharClasses ==
  [name \in ClassNames |->
     CASE name = <<"a", "l", "p", "h", "a">> -> between("a", "z") \cup between("A", "Z")
       [] name = <<"d", "i", "g", "i", "t">> -> between("0", "9")
       [] name = <<"a", "l", "n", "u", "m">> ->
            between("a", "z") \cup between("A", "Z") \cup between("0", "9")
       [] name = <<"u", "p", "p", "e", "r">> -> between("A", "Z")
       [] name = <<"l", "o", "w", "e", "r">> -> between("a", "z")
       [] name = <<"s", "p", "a", "c", "e">> -> {" "} \cup ControlChars
       [] name = <<"b", "l", "a", "n", "k">> -> {" ", "\t"}
       [] name = <<"p", "u", "n", "c", "t">> ->
            between("!", "/") \cup between(":", "@") \cup between("[", Backtick)
              \cup between("{", "~")
       [] name = <<"p", "r", "i", "n", "t">> -> between(" ", "~")
       [] name = <<"g", "r", "a", "p", "h">> -> between("!", "~")
       [] name = <<"c", "n", "t", "r", "l">> -> ControlChars
       [] name = <<"x", "d", "i", "g", "i", "t">> ->
            between("0", "9") \cup between("a", "f") \cup between("A", "F")]

\* [:name:]
charClass(name) == CharClasses[name]

WordChars == charClass(<<"a", "l", "n", "u", "m">>) \cup {"_"}

SpaceChars == charClass(<<"s", "p", "a", "c", "e">>)

DigitChars == between("0", "9")

\* RE_DUP_MAX.
DupMax == 32767

\* Parse results: a tree and the position of the next token, or an error.
Parsed(node, pos) == [ok |-> TRUE, node |-> node, pos |-> pos]

BadPattern == [ok |-> FALSE]

\* Trees.
Empty == [t |-> "empty"]

CharSet(neg, cs) == [t |-> "set", neg |-> neg, cs |-> cs]

Anchor(kind) == [t |-> "anchor", kind |-> kind]

Cat(a, b) ==
  IF a.t = "empty" THEN b ELSE IF b.t = "empty" THEN a
  ELSE [t |-> "cat", a |-> a, b |-> b]

Alt(a, b) == [t |-> "alt", a |-> a, b |-> b]

Rep(a, min, max) ==
  IF min = 0 /\ max = 0 THEN Empty ELSE [t |-> "rep", a |-> a, min |-> min, max |-> max]

\* The token at position i of a pattern; caret tells whether a '^' here is an
\* anchor (after "\(" and "\|").
RECURSIVE peekToken(_, _, _)
peekToken(re, i, caret) ==
  IF i > Len(re) THEN [type |-> "END", c |-> "", len |-> 0]
  ELSE IF re[i] = "\\" THEN
    IF i = Len(re) THEN [type |-> "BACKSLASH", c |-> "\\", len |-> 1]
    ELSE LET c2 == re[i + 1]
         IN [type |-> CASE c2 = "|" -> "ALT"
                        [] c2 \in DigitChars \ {"0"} -> "BACKREF"
                        [] c2 = "<" -> "WORD_FIRST"
                        [] c2 = ">" -> "WORD_LAST"
                        [] c2 = "b" -> "WORD_DELIM"
                        [] c2 = "B" -> "NOT_WORD_DELIM"
                        [] c2 = "w" -> "WORD"
                        [] c2 = "W" -> "NOTWORD"
                        [] c2 = "s" -> "SPACE"
                        [] c2 = "S" -> "NOTSPACE"
                        [] c2 = Backtick -> "BUF_FIRST"
                        [] c2 = "'" -> "BUF_LAST"
                        [] c2 = "(" -> "OPEN_SUBEXP"
                        [] c2 = ")" -> "CLOSE_SUBEXP"
                        [] c2 = "+" -> "DUP_PLUS"
                        [] c2 = "?" -> "DUP_QUESTION"
                        [] c2 = "{" -> "OPEN_DUP_NUM"
                        [] c2 = "}" -> "CLOSE_DUP_NUM"
                        [] OTHER -> "CHARACTER",
             c |-> c2, len |-> 2]
  ELSE LET c == re[i]
       IN [type |-> CASE c = "*" -> "DUP_ASTERISK"
                      [] c = "[" -> "OPEN_BRACKET"
                      [] c = "." -> "PERIOD"
                      [] c = "^" -> IF i = 1 \/ caret THEN "LINE_FIRST" ELSE "CHARACTER"
                      [] c = "$" ->
                           IF \/ i = Len(re)
                              \/ peekToken(re, i + 1, FALSE).type \in {"ALT", "CLOSE_SUBEXP"}
                             THEN "LINE_LAST" ELSE "CHARACTER"
                      [] OTHER -> "CHARACTER",
           c |-> c, len |-> 1]

\* The number of an interval, read from position i up to "\}" or ",": -1 for
\* no digit, -2 for anything else; with the terminating token and the
\* position behind it.
RECURSIVE fetchNumber(_, _, _)
fetchNumber(re, i, num) ==
  Apply(peekToken(re, i, FALSE), LAMBDA tok :
    IF tok.type = "END" THEN [num |-> -2, tok |-> tok, pos |-> i]
    ELSE IF tok.type = "CLOSE_DUP_NUM" \/ tok.c = ","
      THEN [num |-> num, tok |-> tok, pos |-> i + tok.len]
    ELSE fetchNumber(re, i + tok.len,
           IF tok.type # "CHARACTER" \/ tok.c \notin DigitChars \/ num = -2
             THEN -2
           ELSE IF num = -1 THEN charCode(tok.c) - 48
           ELSE IF num * 10 + charCode(tok.c) - 48 > DupMax THEN DupMax + 1
           ELSE num * 10 + charCode(tok.c) - 48))

\* The interval whose "\{" is at position i, applied to elem: first is its
\* first number, last its last one.
interval(elem, first, last) ==
  LET comma == first.tok.type = "CHARACTER" /\ first.tok.c = ","
      start == IF first.num = -1 /\ comma THEN 0 ELSE first.num
      end   == IF first.tok.type = "CLOSE_DUP_NUM" THEN start ELSE last.num
  IN IF start = -1 \/ start = -2 \/ end = -2 THEN BadPattern
     ELSE IF (end # -1 /\ start > end) \/ last.tok.type # "CLOSE_DUP_NUM" THEN BadPattern
     ELSE IF DupMax < (IF end = -1 THEN start ELSE end) THEN BadPattern
     ELSE Parsed(Rep(elem, start, end), last.pos)

\* The duplication operator at position i applied to elem.
parseDupOp(re, elem, i) ==
  Apply(peekToken(re, i, FALSE), LAMBDA tok :
    IF tok.type = "OPEN_DUP_NUM"
      THEN Apply(fetchNumber(re, i + 2, -1), LAMBDA first :
             IF first.tok.type = "CLOSE_DUP_NUM" THEN interval(elem, first, first)
             ELSE IF first.tok.type = "CHARACTER" /\ first.tok.c = ","
               THEN Apply(fetchNumber(re, first.pos, -1), LAMBDA last :
                      interval(elem, first, last))
             ELSE BadPattern)
    ELSE Parsed(Rep(elem,
                    IF tok.type = "DUP_PLUS" THEN 1 ELSE 0,
                    IF tok.type = "DUP_QUESTION" THEN 1 ELSE -1),
                i + tok.len))

\* The duplication operators that follow an expression.
RECURSIVE dupLoop(_, _, _)
dupLoop(re, node, i) ==
  IF peekToken(re, i, FALSE).type
       \in {"DUP_ASTERISK", "DUP_PLUS", "DUP_QUESTION", "OPEN_DUP_NUM"}
    THEN Apply(parseDupOp(re, node, i), LAMBDA dup :
           IF ~dup.ok THEN BadPattern
           ELSE IF peekToken(re, dup.pos, FALSE).type \in {"DUP_ASTERISK", "OPEN_DUP_NUM"}
             THEN BadPattern
           ELSE dupLoop(re, dup.node, dup.pos))
    ELSE Parsed(node, i)

\* The token at position i of a bracket expression.
peekTokenBracket(re, i) ==
  IF i > Len(re) THEN [type |-> "END", c |-> "", len |-> 0]
  ELSE LET c == re[i]
       IN IF c = "[" /\ i < Len(re) /\ re[i + 1] \in {".", "=", ":"}
            THEN [type |-> CASE re[i + 1] = ":" -> "OPEN_CHAR_CLASS", c |-> c, len |-> 2]
          ELSE [type |-> CASE c = "]" -> "CLOSE_BRACKET"
                           [] c = "^" -> "NON_MATCH_LIST"
                           [] c = "-" -> "CHARSET_RANGE"
                           [] OTHER -> "CHARACTER",
                c |-> c, len |-> 1]

\* The name of a character class from position i up to ":]".
RECURSIVE classNameEnd(_, _)
classNameEnd(re, i) ==
  IF i + 1 > Len(re) THEN 0
  ELSE IF re[i] = ":" /\ re[i + 1] = "]" THEN i
  ELSE classNameEnd(re, i + 1)

\* One element of a bracket expression, its token being tok at position i.
parseBracketElement(re, i, tok, acceptHyphen) ==
  IF tok.type = "OPEN_CHAR_CLASS"
    THEN LET e == classNameEnd(re, i + 2)
         IN IF e = 0 THEN BadPattern
            ELSE [ok |-> TRUE, class |-> TRUE, name |-> SubSeq(re, i + 2, e - 1),
                  pos |-> e + 2]
  ELSE IF /\ tok.type = "CHARSET_RANGE"
          /\ ~acceptHyphen
          /\ peekTokenBracket(re, i + 1).type # "CLOSE_BRACKET"
    THEN BadPattern
  ELSE [ok |-> TRUE, class |-> FALSE, c |-> tok.c, pos |-> i + tok.len]

\* The elements of a bracket expression from position i; tok is the token
\* there, cs the characters collected so far.
RECURSIVE bracketLoop(_, _, _, _, _)
RECURSIVE bracketNext(_, _, _)
bracketLoop(re, i, tok, first, cs) ==
  Apply(parseBracketElement(re, i, tok, first), LAMBDA start :
    IF ~start.ok THEN BadPattern
    ELSE
      LET next   == peekTokenBracket(re, start.pos)
          after  == peekTokenBracket(re, start.pos + 1)
          hyphen == ~start.class /\ next.type = "CHARSET_RANGE"
      IN IF ~start.class /\ next.type = "END" THEN BadPattern
         ELSE IF hyphen /\ after.type = "END" THEN BadPattern
         ELSE IF hyphen /\ after.type # "CLOSE_BRACKET"
           THEN Apply(parseBracketElement(re, start.pos + 1, after, TRUE), LAMBDA end :
                  IF ~end.ok THEN BadPattern
                  ELSE IF end.class THEN BadPattern
                  ELSE IF charCode(start.c) > charCode(end.c) THEN BadPattern
                  ELSE bracketNext(re, end.pos, cs \cup between(start.c, end.c)))
         ELSE IF start.class /\ start.name \notin ClassNames THEN BadPattern
         ELSE IF start.class THEN bracketNext(re, start.pos, cs \cup charClass(start.name))
         ELSE IF hyphen
           THEN bracketLoop(re, start.pos, [type |-> "CHARACTER", c |-> "-", len |-> 1],
                            FALSE, cs \cup {start.c})
         ELSE bracketNext(re, start.pos, cs \cup {start.c}))

\* The bracket expression goes on at position i or ends there.
bracketNext(re, i, cs) ==
  Apply(peekTokenBracket(re, i), LAMBDA tok :
    IF tok.type = "END" THEN BadPattern
    ELSE IF tok.type = "CLOSE_BRACKET" THEN Parsed(cs, i + 1)
    ELSE bracketLoop(re, i, tok, FALSE, cs))

\* The bracket expression whose '[' is at position i - 1.
parseBracketExp(re, i) ==
  LET neg  == peekTokenBracket(re, i).type = "NON_MATCH_LIST"
      j    == IF neg THEN i + 1 ELSE i
      tok  == peekTokenBracket(re, j)
      tok1 == IF tok.type = "CLOSE_BRACKET"
                THEN [type |-> "CHARACTER", c |-> "]", len |-> 1] ELSE tok
  IN IF tok.type = "END" THEN BadPattern
     ELSE Apply(bracketLoop(re, j, tok1, TRUE, {}), LAMBDA body :
            IF ~body.ok THEN BadPattern ELSE Parsed(CharSet(neg, body.node), body.pos))

RECURSIVE parseRegExp(_, _, _, _)
RECURSIVE altLoop(_, _, _, _)
RECURSIVE parseBranch(_, _, _, _)
RECURSIVE branchLoop(_, _, _, _)
RECURSIVE parseExpression(_, _, _, _)
RECURSIVE parseSubExp(_, _, _)

\* Whether the token ends a branch.
endsBranch(tok, nest) ==
  tok.type \in {"ALT", "END"} \/ (nest > 0 /\ tok.type = "CLOSE_SUBEXP")

parseRegExp(re, i, caret, nest) ==
  Apply(parseBranch(re, i, caret, nest), LAMBDA branch :
    IF ~branch.ok THEN BadPattern ELSE altLoop(re, branch.node, branch.pos, nest))

altLoop(re, tree, i, nest) ==
  IF peekToken(re, i, FALSE).type # "ALT" THEN Parsed(tree, i)
  ELSE Apply(IF endsBranch(peekToken(re, i + 2, TRUE), nest)
               THEN Parsed(Empty, i + 2)
               ELSE parseBranch(re, i + 2, TRUE, nest),
             LAMBDA branch :
               IF ~branch.ok THEN BadPattern
               ELSE altLoop(re, Alt(tree, branch.node), branch.pos, nest))

parseBranch(re, i, caret, nest) ==
  Apply(parseExpression(re, i, caret, nest), LAMBDA expr :
    IF ~expr.ok THEN BadPattern ELSE branchLoop(re, expr.node, expr.pos, nest))

branchLoop(re, tree, i, nest) ==
  IF endsBranch(peekToken(re, i, FALSE), nest) THEN Parsed(tree, i)
  ELSE Apply(parseExpression(re, i, FALSE, nest), LAMBDA expr :
         IF ~expr.ok THEN BadPattern
         ELSE branchLoop(re, Cat(tree, expr.node), expr.pos, nest))

parseExpression(re, i, caret, nest) ==
  Apply(peekToken(re, i, caret), LAMBDA tok :
    CASE tok.type = "CHARACTER" -> dupLoop(re, CharSet(FALSE, {tok.c}), i + tok.len)
      [] tok.type = "OPEN_SUBEXP" ->
           Apply(parseSubExp(re, i + 2, nest + 1), LAMBDA sub :
             IF ~sub.ok THEN BadPattern ELSE dupLoop(re, sub.node, sub.pos))
      [] tok.type = "OPEN_BRACKET" ->
           Apply(parseBracketExp(re, i + 1), LAMBDA set :
             IF ~set.ok THEN BadPattern ELSE dupLoop(re, set.node, set.pos))
      [] tok.type \in {"OPEN_DUP_NUM", "CLOSE_SUBEXP", "BACKSLASH"} -> BadPattern
      [] tok.type \in {"DUP_ASTERISK", "DUP_PLUS", "DUP_QUESTION", "CLOSE_DUP_NUM"} ->
           dupLoop(re, CharSet(FALSE, {tok.c}), i + tok.len)
      [] tok.type \in {"LINE_FIRST", "LINE_LAST", "BUF_FIRST", "BUF_LAST", "WORD_FIRST",
                       "WORD_LAST", "WORD_DELIM", "NOT_WORD_DELIM"} ->
           Parsed(Anchor(tok.type), i + tok.len)
      [] tok.type = "PERIOD" -> dupLoop(re, CharSet(TRUE, {}), i + 1)
      [] tok.type = "WORD" -> dupLoop(re, CharSet(FALSE, WordChars), i + 2)
      [] tok.type = "NOTWORD" -> dupLoop(re, CharSet(TRUE, WordChars), i + 2)
      [] tok.type = "SPACE" -> dupLoop(re, CharSet(FALSE, SpaceChars), i + 2)
      [] tok.type = "NOTSPACE" -> dupLoop(re, CharSet(TRUE, SpaceChars), i + 2)
      [] tok.type \in {"ALT", "END"} -> Parsed(Empty, i))

\* The subexpression whose "\(" ends at position i - 1.
parseSubExp(re, i, nest) ==
  IF peekToken(re, i, TRUE).type = "CLOSE_SUBEXP" THEN Parsed(Empty, i + 2)
  ELSE Apply(parseRegExp(re, i, TRUE, nest), LAMBDA inner :
         IF ~inner.ok THEN BadPattern
         ELSE IF peekToken(re, inner.pos, FALSE).type # "CLOSE_SUBEXP" THEN BadPattern
         ELSE Parsed(inner.node, inner.pos + 2))

\* regcomp(pattern), for a pattern of ASCII characters.
regcomp(re) == CASE Range(re) \subseteq AsciiChars -> parseRegExp(re, 1, TRUE, 0)

isWordAt(text, i) == i >= 1 /\ i <= Len(text) /\ text[i] \in WordChars

\* Whether an anchor holds between text[i] and text[i + 1].
anchorHolds(kind, text, i) ==
  CASE kind = "LINE_FIRST" -> i = 0 \/ text[i] = "\n"
    [] kind = "LINE_LAST" -> i = Len(text) \/ text[i + 1] = "\n"
    [] kind = "BUF_FIRST" -> i = 0
    [] kind = "BUF_LAST" -> i = Len(text)
    [] kind = "WORD_FIRST" -> ~isWordAt(text, i) /\ isWordAt(text, i + 1)
    [] kind = "WORD_LAST" -> isWordAt(text, i) /\ ~isWordAt(text, i + 1)
    [] kind = "WORD_DELIM" -> isWordAt(text, i) # isWordAt(text, i + 1)
    [] kind = "NOT_WORD_DELIM" -> isWordAt(text, i) = isWordAt(text, i + 1)

\* The positions at which a match of tree that starts behind text[i] can end.
RECURSIVE ends(_, _, _)
RECURSIVE repEnds(_, _, _, _, _)
ends(tree, text, i) ==
  CASE tree.t = "empty" -> {i}
    [] tree.t = "set" ->
         IF /\ i < Len(text)
            /\ (text[i + 1] \in tree.cs) # tree.neg
            /\ ~(tree.neg /\ text[i + 1] = "\n")
           THEN {i + 1} ELSE {}
    [] tree.t = "anchor" -> IF anchorHolds(tree.kind, text, i) THEN {i} ELSE {}
    [] tree.t = "cat" -> UNION {ends(tree.b, text, j) : j \in ends(tree.a, text, i)}
    [] tree.t = "alt" -> ends(tree.a, text, i) \cup ends(tree.b, text, i)
    [] tree.t = "rep" -> repEnds(tree, text, {i}, 0, {})

\* The ends of count and more repetitions, from being the ends of exactly
\* count repetitions and seen those already collected.
repEnds(tree, text, from, count, seen) ==
  IF count >= tree.min /\ from \subseteq seen THEN {}
  ELSE IF count >= tree.min /\ tree.max # -1 /\ count = tree.max THEN from
  ELSE Apply(UNION {ends(tree.a, text, j) : j \in from}, LAMBDA next :
         IF count >= tree.min
           THEN from \cup repEnds(tree, text, next, count + 1, seen \cup from)
         ELSE IF next = from THEN from
         ELSE repEnds(tree, text, next, count + 1, seen))

\* regexec(pattern, text): whether the pattern matches somewhere in a text of
\* ASCII characters.
regexec(tree, text) ==
  CASE Range(text) \subseteq AsciiChars -> \E i \in 0..Len(text) : ends(tree, text, i) # {}

(***************************************************************************)
(* The command line.  execSync hands the command to /bin/sh, and the       *)
(* author stands between double quotes in it.  A text with a closing       *)
(* double quote, a command substitution or a parameter expansion has no    *)
(* value here: what the shell then runs depends on the variables of the    *)
(* process and of the shell, or is not the one query.                      *)
(***************************************************************************)
\* The characters a parameter name starts with.
NameStart == between("a", "z") \cup between("A", "Z") \cup {"_"}

\* The characters that make a '$' the start of an expansion.
ExpansionStart ==
  NameStart \cup between("0", "9") \cup {"{", "(", "@", "*", "#", "?", "-", "$", "!"}

ShellWord(word) == [ok |-> TRUE, word |-> word]

\* Syntax error: Unterminated quoted string.
Unterminated == [ok |-> FALSE]

\* The place of the first character at or after i that is not part of a
\* backslash-newline pair: the shell drops the pairs before it looks at what
\* follows a dollar sign.
RECURSIVE afterContinuations(_, _)
afterContinuations(text, i) ==
  IF i < Len(text) /\ text[i] = "\\" /\ text[i + 1] = "\n" THEN afterContinuations(text, i + 2)
  ELSE i

\* Whether the text from i on, continuations dropped, starts an expansion.
startsExpansion(text, i) ==
  Apply(afterContinuations(text, i), LAMBDA j : j <= Len(text) /\ text[j] \in ExpansionStart)

\* The word the shell makes of the text between the double quotes, read from
\* position i, word being what the text before has given.
RECURSIVE shellWord(_, _, _)
shellWord(text, i, word) ==
  IF i > Len(text) THEN ShellWord(word)
  ELSE LET c    == text[i]
           next == IF i < Len(text) THEN text[i + 1] ELSE ""
       IN CASE c = "\\" /\ i = Len(text) -> Unterminated
            [] c = "\\" /\ next \in {"$", Backtick, "\"", "\\"} ->
                 shellWord(text, i + 2, Append(word, next))
            [] c = "\\" /\ next = "\n" -> shellWord(text, i + 2, word)
            [] c = "\\" /\ i < Len(text) /\ next \notin {"$", Backtick, "\"", "\\", "\n"} ->
                 shellWord(text, i + 2, word \o <<c, next>>)
            [] c = "$" /\ ~startsExpansion(text, i + 1) ->
                 shellWord(text, i + 1, Append(word, c))
            [] c \notin {"\\", "$", Backtick, "\""} -> shellWord(text, i + 1, Append(word, c))

(***************************************************************************)
(* Commit Extractor.                                                       *)
(*                                                                         *)
(* A commit of a repository's history: its abbreviated hash h, the instant *)
(* it was authored and the zone offset (hours) recorded with that instant, *)
(* the instant it was committed, its author ident "name <email>", and its  *)
(* kind.  The kind fixes the subject (split at every '|'), whether the     *)
(* commit is a merge and whether it is signed (with log.showSignature set, *)
(* git prints the signature check before the commit's own line).           *)
(* A history lists the commits from the newest to the oldest.              *)
(***************************************************************************)
CommitKinds == {"plain", "piped", "merge", "signed"}

Subject(kind) == IF kind = "piped" THEN <<"fix a", "b">> ELSE <<"fix">>

\* %h of the i-th commit of a history.
hashOf(i) == <<"c", Digits[i + 1]>>

\* The line git prints for an ssh-signed commit before the commit's line; it
\* holds no '|'.
SignatureLine == <<"Good \"git\" signature for me with ED25519 key">>

\* The lines of the --author argument: git takes each line of it as a
\* pattern of its own.
RECURSIVE patternLines(_)
patternLines(word) ==
  IF \A i \in 1..Len(word) : word[i] # "\n" THEN <<word>>
  ELSE LET i == CHOOSE k \in 1..Len(word) :
                  word[k] = "\n" /\ \A j \in 1..(k - 1) : word[j] # "\n"
       IN <<SubSeq(word, 1, i - 1)>> \o patternLines(SubSeq(word, i + 1, Len(word)))

\* The patterns of the query, compiled: those of --author="${author}" when an
\* author is given, and one that every ident matches when none is.  The
\* command fails when the shell rejects it or regcomp rejects a pattern.
authorFilter(author) ==
  IF author = <<>> THEN [ok |-> TRUE, patterns |-> <<Empty>>]
  ELSE Apply(shellWord(author, 1, <<>>), LAMBDA arg :
         IF ~arg.ok THEN [ok |-> FALSE]
         ELSE Apply([k \in 1..Len(patternLines(arg.word)) |->
                       regcomp(patternLines(arg.word)[k])],
                    LAMBDA compiled :
                      IF \E k \in 1..Len(compiled) : ~compiled[k].ok THEN [ok |-> FALSE]
                      ELSE [ok |-> TRUE,
                            patterns |-> [k \in 1..Len(compiled) |-> compiled[k].node]]))

\* --author=<pattern>: a search of one of the patterns in the author ident.
authorMatches(filter, ident) ==
  \E k \in 1..Len(filter.patterns) : regexec(filter.patterns[k], ident)

\* Whether the command of the query fails: the repository answers with a
\* failure, it has no commit yet (git log is fatal then), or the command is
\* rejected.
queryFails(reply, filter) == reply.broken \/ reply.log = <<>> \/ ~filter.ok

\* %ad with --date=short: the calendar date of the author instant in the zone
\* recorded with it.
authorDate(commit) == IsoOfDay((commit.authored + commit.zone) \div 24)

\* The lines git log prints for one commit the walk shows, each already split
\* at '|' (line.split('|')): --no-merges and --author select the commit.
logLines(commit, filter) ==
  IF commit.kind # "merge" /\ authorMatches(filter, commit.author)
    THEN (IF commit.kind = "signed" THEN <<SignatureLine>> ELSE <<>>)
         \o <<(<<commit.h, authorDate(commit)>> \o Subject(commit.kind))>>
    ELSE <<>>

\* git log --since="<days> days ago": the walk from the newest commit ends at
\* the first commit committed before now - days * 24 hours.
RECURSIVE gitLog(_, _, _, _)
gitLog(history, days, filter, clk) ==
  IF history = <<>> THEN <<>>
  ELSE IF Head(history).committed < clk.now - 24 * days THEN <<>>
  ELSE logLines(Head(history), filter) \o gitLog(Tail(history), days, filter, clk)

\* const [hash, date, msg] = line.split('|'); { hash, date, msg, repo }.
parseLine(line, repoPath) ==
  [hash |-> line[1],
   date |-> IF Len(line) >= 2 THEN line[2] ELSE Undefined,
   msg  |-> IF Len(line) >= 3 THEN line[3] ELSE UndefinedStr,
   repo |-> basename(repoPath)]

\* reply is what the repository answers to the log query: a failure
\* (reply.broken) or its history.  A command that fails is caught and yields
\* no commits.
getGitLogs(reply, repoPath, days, author, clk) ==
  Apply(authorFilter(author), LAMBDA filter :
    IF queryFails(reply, filter) THEN <<>>
    ELSE Apply(gitLog(reply.log, days, filter, clk), LAMBDA lines :
           [i \in 1..Len(lines) |-> parseLine(lines[i], repoPath)]))

(***************************************************************************)
(* Note Reader.                                                            *)
(***************************************************************************)
\* The text of a note file in the workspace's notes directory: a heading, a
\* line of a tab, a line of a no-break space and a byte order mark, a line of
\* a space and a carriage return, and a list item.
WsContent == <<"#", " ", "N", "\n", "\t", "\n">> \o <<"U+00A0", "U+FEFF">> \o <<"\n", " ",
    "\r", "\n", "-", " ", "a">>

\* The text of a note file in the current directory's notes directory.
CwdContent == <<"n", "o", "t", "e">>

\* The outcome of a call: a value, or a thrown error.
Return(v) == [threw |-> FALSE, v |-> v]

Thrown == [threw |-> TRUE]

\* fs.readFileSync throws in iteration i of the loop.
ThrownIn(i) == [threw |-> TRUE, i |-> i]

\* The loop of getMemoryLogs from iteration i on.  clk is the clock as the
\* call reads it: clk.today at line 93 and clk.d[i + 1] at line 96 of
\* iteration i.  nfs.ws and nfs.cwd are the dates whose note path exists in
\* the workspace's and in the current directory's notes directory;
\* nfs.wsFails and nfs.cwdFails are those among them that cannot be read (a
\* file without read permission, a directory).
RECURSIVE memoryLoop(_, _, _, _, _)
memoryLoop(i, days, clk, nfs, mems) ==
  IF i >= days THEN Return(mems)
  ELSE LET d       == setDate(clk.tz, clk.d[i + 1], getDate(clk.tz, clk.today) - i)
           dateStr == toISODate(d)
       IN IF dateStr \in nfs.ws
            THEN IF dateStr \in nfs.wsFails THEN ThrownIn(i)
                 ELSE memoryLoop(i + 1, days, clk, nfs,
                                 Append(mems, [date |-> dateStr, content |-> WsContent]))
          ELSE IF dateStr \in nfs.cwd
            THEN IF dateStr \in nfs.cwdFails THEN ThrownIn(i)
                 ELSE memoryLoop(i + 1, days, clk, nfs,
                                 Append(mems, [date |-> dateStr, content |-> CwdContent]))
          ELSE memoryLoop(i + 1, days, clk, nfs, mems)

getMemoryLogs(days, clk, nfs) == memoryLoop(0, days, clk, nfs, <<>>)

(***************************************************************************)
(* Report Aggregator: Array.prototype.sort with the comparator of run().   *)
(***************************************************************************)
\* The comparator with its operands exchanged: (a, b) => a.date.localeCompare(b.date).
comparefnAscending(a, b) ==
  IF a.date = Undefined THEN Thrown
  ELSE Return(localeCompare(a.date, ToStr(b.date)))

\* (a, b) => b.date.localeCompare(a.date): reading localeCompare off an
\* undefined b.date throws.
comparefn(a, b) ==
  IF b.date = Undefined THEN Thrown
  ELSE Return(localeCompare(b.date, ToStr(a.date)))

\* The length of the run that starts the array (for fewer than 64 elements the
\* engine sorts by one run followed by binary insertion).
RECURSIVE runLength(_, _, _, _)
runLength(arr, i, descending, len) ==
  IF i > Len(arr) THEN Return(len)
  ELSE LET order == comparefn(arr[i], arr[i - 1])
       IN IF order.threw THEN Thrown
          ELSE IF descending /\ order.v >= 0 THEN Return(len)
          ELSE IF ~descending /\ order.v < 0 THEN Return(len)
          ELSE runLength(arr, i + 1, descending, len + 1)

\* The insertion point of pivot in work[left..right-1].
RECURSIVE insertionPoint(_, _, _, _)
insertionPoint(work, pivot, left, right) ==
  IF left >= right THEN Return(left)
  ELSE LET mid   == left + ((right - left) \div 2)
           order == comparefn(pivot, work[mid])
       IN IF order.threw THEN Thrown
          ELSE IF order.v < 0 THEN insertionPoint(work, pivot, left, mid)
          ELSE insertionPoint(work, pivot, mid + 1, right)

RECURSIVE binaryInsertionSort(_, _)
binaryInsertionSort(work, start) ==
  IF start > Len(work) THEN Return(work)
  ELSE LET pivot == work[start]
           left  == insertionPoint(work, pivot, 1, start)
       IN IF left.threw THEN Thrown
          ELSE binaryInsertionSort(
                 [p \in 1..Len(work) |->
                    IF p < left.v \/ p > start THEN work[p]
                    ELSE IF p = left.v THEN pivot
                    ELSE work[p - 1]],
                 start + 1)

\* allCommits.sort(comparefn), as Node's engine sorts an array of fewer than 64
\* elements: the comparator is first called on (arr[1], arr[0]), a descending
\* run is reversed, and the rest is inserted by binary search.
sort(arr) ==
  IF Len(arr) < 2 THEN Return(arr)
  ELSE LET first == comparefn(arr[2], arr[1])
       IN IF first.threw THEN Thrown
          ELSE LET descending == first.v < 0
                   run        == runLength(arr, 3, descending, 2)
               IN IF run.threw THEN Thrown
                  ELSE binaryInsertionSort(
                         IF descending
                           THEN Reverse(SubSeq(arr, 1, run.v))
                                \o SubSeq(arr, run.v + 1, Len(arr))
                           ELSE arr,
                         run.v + 1)

\* The count without the Set: allCommits.map(c => c.repo).length.
reposTouchedNoSet(commits) == Len(commits)

\* [...new Set(allCommits.map(c => c.repo))].length.
reposTouched(commits) == Cardinality({commits[i].repo : i \in 1..Len(commits)})

\* The report model.
buildData(commits, mems, c) ==
  [range   |-> c.days,
   author  |-> c.author,
   stats   |-> [reposTouched  |-> reposTouched(commits),
                totalCommits  |-> Len(commits),
                memoryEntries |-> Len(mems)],
   commits |-> commits,
   memory  |-> mems]

(***************************************************************************)
(* Renderer.  A document is a sequence of items, one per heading, line or  *)
(* block of the output.                                                    *)
(***************************************************************************)
\* The own property names of Object.prototype: byRepo[name] is truthy for
\* them before any assignment, and has no push method.
ObjectPrototypeKeys ==
  {<<"c", "o", "n", "s", "t", "r", "u", "c", "t", "o", "r">>,
   <<"_", "_", "d", "e", "f", "i", "n", "e", "G", "e", "t", "t", "e", "r", "_", "_">>,
   <<"_", "_", "d", "e", "f", "i", "n", "e", "S", "e", "t", "t", "e", "r", "_", "_">>,
   <<"h", "a", "s", "O", "w", "n", "P", "r", "o", "p", "e", "r", "t", "y">>,
   <<"_", "_", "l", "o", "o", "k", "u", "p", "G", "e", "t", "t", "e", "r", "_", "_">>,
   <<"_", "_", "l", "o", "o", "k", "u", "p", "S", "e", "t", "t", "e", "r", "_", "_">>,
   <<"i", "s", "P", "r", "o", "t", "o", "t", "y", "p", "e", "O", "f">>,
   <<"p", "r", "o", "p", "e", "r", "t", "y", "I", "s", "E", "n", "u", "m", "e", "r", "a",
       "b", "l", "e">>,
   <<"t", "o", "S", "t", "r", "i", "n", "g">>,
   <<"v", "a", "l", "u", "e", "O", "f">>,
   <<"_", "_", "p", "r", "o", "t", "o", "_", "_">>,
   <<"t", "o", "L", "o", "c", "a", "l", "e", "S", "t", "r", "i", "n", "g">>}

\* 2^32 - 2, the largest array index.
MaxArrayIndex == <<"4", "2", "9", "4", "9", "6", "7", "2", "9", "4">>

\* Whether a property name is an array index: the decimal text, without
\* leading zeros, of an integer from 0 to 2^32 - 2.
isArrayIndex(name) ==
  /\ name # <<>>
  /\ \A i \in 1..Len(name) : name[i] \in Range(Digits)
  /\ Len(name) = 1 \/ name[1] # "0"
  /\ \/ Len(name) < Len(MaxArrayIndex)
     \/ Len(name) = Len(MaxArrayIndex) /\ localeCompare(name, MaxArrayIndex) <= 0

\* Whether array index a is numerically at most array index b.
indexAtMost(a, b) ==
  \/ Len(a) < Len(b)
  \/ Len(a) = Len(b) /\ localeCompare(a, b) <= 0

\* The keys of byRepo in insertion order: the order of first appearance.
RECURSIVE insertionOrder(_, _)
insertionOrder(commits, seen) ==
  IF commits = <<>> THEN <<>>
  ELSE IF Head(commits).repo \in seen THEN insertionOrder(Tail(commits), seen)
  ELSE <<Head(commits).repo>>
       \o insertionOrder(Tail(commits), seen \cup {Head(commits).repo})

\* Array-index keys in ascending numeric order.
RECURSIVE ascendingIndexKeys(_)
ascendingIndexKeys(keys) ==
  IF keys = {} THEN <<>>
  ELSE LET least == CHOOSE k \in keys : \A o \in keys : indexAtMost(k, o)
       IN <<least>> \o ascendingIndexKeys(keys \ {least})

\* Object.entries(byRepo): array-index keys first, ascending, then the other
\* keys in insertion order.
entriesOrder(commits) ==
  LET keys == insertionOrder(commits, {})
  IN ascendingIndexKeys({k \in Range(keys) : isArrayIndex(k)})
     \o SelectSeq(keys, LAMBDA k : ~isArrayIndex(k))

\* commits.forEach(c => byRepo[c.repo].push(c)) throws when a repository is
\* named like an inherited property.
groupingThrows(commits) ==
  \E i \in 1..Len(commits) : commits[i].repo \in ObjectPrototypeKeys

commitItem(c) == [k |-> "commit", date |-> c.date, msg |-> c.msg, hash |-> c.hash]

\* One repository's subsection.
repoSection(commits, repo) ==
  LET own == SelectSeq(commits, LAMBDA c : c.repo = repo)
  IN <<[k |-> "repo", name |-> repo]>>
     \o [i \in 1..Len(own) |-> commitItem(own[i])]
     \o <<[k |-> "blank"]>>

RECURSIVE repoSections(_, _)
repoSections(commits, order) ==
  IF order = <<>> THEN <<>>
  ELSE repoSection(commits, Head(order)) \o repoSections(commits, Tail(order))

\* The white space and line terminators that trim() removes.
WhiteSpace ==
  {"\t", "\n", VT, "\f", "\r", " ", "U+00A0", "U+1680", "U+2000", "U+2001", "U+2002",
   "U+2003", "U+2004", "U+2005", "U+2006", "U+2007", "U+2008", "U+2009", "U+200A",
   "U+2028", "U+2029", "U+202F", "U+205F", "U+3000", "U+FEFF"}

\* text.split('\n').
RECURSIVE split(_)
split(text) ==
  IF \A i \in 1..Len(text) : text[i] # "\n" THEN <<text>>
  ELSE LET i == CHOOSE k \in 1..Len(text) :
                  text[k] = "\n" /\ \A j \in 1..(k - 1) : text[j] # "\n"
       IN <<SubSeq(text, 1, i - 1)>> \o split(SubSeq(text, i + 1, Len(text)))

RECURSIVE trimStart(_)
trimStart(l) ==
  IF l # <<>> /\ Head(l) \in WhiteSpace THEN trimStart(Tail(l)) ELSE l

RECURSIVE trimEnd(_)
trimEnd(l) ==
  IF l # <<>> /\ l[Len(l)] \in WhiteSpace THEN trimEnd(SubSeq(l, 1, Len(l) - 1)) ELSE l

\* String.prototype.trim.
trim(l) == trimEnd(trimStart(l))

startsWith(l, c) == l # <<>> /\ l[1] = c

\* lines.join('\n').
RECURSIVE joinLines(_)
joinLines(lines) ==
  IF lines = <<>> THEN <<>>
  ELSE IF Len(lines) = 1 THEN lines[1]
  ELSE lines[1] \o <<"\n">> \o joinLines(Tail(lines))

\* The digest of a note: its first ten lines that pass the filter of run().
summary(content) ==
  LET kept == SelectSeq(split(content),
                        LAMBDA l : \/ startsWith(l, "#")
                                   \/ startsWith(trim(l), "-")
                                   \/ Len(trim(l)) > 0)
  IN joinLines(SubSeq(kept, 1, IF Len(kept) < 10 THEN Len(kept) ELSE 10))

RECURSIVE memorySections(_)
memorySections(mems) ==
  IF mems = <<>> THEN <<>>
  ELSE <<[k |-> "note", date |-> Head(mems).date],
         [k |-> "digest", text |-> summary(Head(mems).content)]>>
       \o memorySections(Tail(mems))

\* The Markdown report; the grouping of commits may throw.
renderText(d, clk) ==
  IF d.commits # <<>> /\ groupingThrows(d.commits) THEN Thrown
  ELSE Return(
    <<[k |-> "title", date |-> toISODate(clk.now)],
      [k |-> "range", n |-> d.range],
      [k |-> "author", author |-> d.author],
      [k |-> "activity", n |-> d.stats.totalCommits, m |-> d.stats.reposTouched],
      [k |-> "codeActivity"]>>
    \o (IF d.commits = <<>> THEN <<[k |-> "noCommits"]>>
        ELSE repoSections(d.commits, entriesOrder(d.commits)))
    \o <<[k |-> "memoryLogs"]>>
    \o (IF d.memory = <<>> THEN <<[k |-> "noMemory"]>>
        ELSE memorySections(d.memory)))

\* JSON.stringify drops the fields that are undefined.
jsonCommit(c) ==
  [f \in {"hash", "repo"} \cup (IF c.date = Undefined THEN {} ELSE {"date"})
                          \cup (IF c.msg = UndefinedStr THEN {} ELSE {"msg"}) |-> c[f]]

renderJson(d) ==
  <<[k |-> "json",
     range |-> d.range, author |-> d.author, stats |-> d.stats,
     commits |-> [i \in 1..Len(d.commits) |-> jsonCommit(d.commits[i])],
     memory |-> d.memory]>>

(***************************************************************************)
(* AI Summarizer.                                                          *)
(***************************************************************************)
\* What spawnSync('gemini', [prompt]) can do: throw, return with .error set
\* (the command cannot be executed), or return the process's output streams.
AIReplies ==
  {[threw |-> TRUE,  error |-> FALSE, stdout |-> "", stderr |-> ""],
   [threw |-> FALSE, error |-> TRUE,  stdout |-> "", stderr |-> ""],
   [threw |-> FALSE, error |-> FALSE, stdout |-> "", stderr |-> "quota exceeded"],
   [threw |-> FALSE, error |-> FALSE, stdout |-> "", stderr |-> ""],
   [threw |-> FALSE, error |-> FALSE, stdout |-> "narrative", stderr |-> ""],
   [threw |-> FALSE, error |-> FALSE, stdout |-> "narrative", stderr |-> "warning"]}

aiFailed(text) == [k |-> "aiFailed", text |-> text]

\* An AI block whose success branch assigns the narrative instead of prepending it.
aiOutputReplacing(out, r) ==
  IF r.threw THEN out \o <<aiFailed("exception message")>>
  ELSE IF r.error THEN out \o <<aiFailed("Could not execute 'gemini' command.")>>
  ELSE IF r.stderr # "" /\ r.stdout = "" THEN out \o <<aiFailed(r.stderr)>>
  ELSE <<[k |-> "aiTitle"], [k |-> "narrative", text |-> r.stdout], [k |-> "divider"]>>

\* The output after the AI block of run().
aiOutput(out, r) ==
  IF r.threw THEN out \o <<aiFailed("exception message")>>
  ELSE IF r.error THEN out \o <<aiFailed("Could not execute 'gemini' command.")>>
  ELSE IF r.stderr # "" /\ r.stdout = "" THEN out \o <<aiFailed(r.stderr)>>
  ELSE <<[k |-> "aiTitle"], [k |-> "narrative", text |-> r.stdout], [k |-> "divider"]>>
       \o out

(***************************************************************************)
(* The run: run() of src/index.js, step by step.                           *)
(***************************************************************************)
\* The clock at the start of the full run: 2024-04-01T23:00Z, in UTC.
RunClock == [now |-> BaseInstant + 23, tz |-> TzUTC]

\* Author idents of commits.
Me == <<"m", "e", " ", "<", "m", "@", "x", ">">>

Al == <<"a", "l", " ", "<", "a", "@", "y", ">">>

\* --days, --author, --json, --ai.  With --json, run() returns before the AI
\* block, so --ai is left out of the JSON configurations.
RunConfigs ==
  {c \in [days : {1, MaxDays}, author : {<<"m", "e">>}, json : BOOLEAN, ai : BOOLEAN] :
     c.json => ~c.ai}

\* The names of the child repositories of the full run.
RunNames == {<<"7">>, <<"a", "p", "p">>, <<"c", "o", "n", "s", "t", "r", "u", "c", "t", "o",
    "r">>}

\* Workspaces of the full run: every entry but .git is a repository.
RunWorkspaces ==
  {w \in Workspaces :
     /\ w.listable
     /\ \A i \in 1..Len(w.entries) :
          LET e == w.entries[i]
          IN /\ e.name \in RunNames \cup {DotGit}
             /\ e.isDir /\ ~e.nested
             /\ e.git <=> e.name # DotGit}

\* The notes directories of the full run: yesterday's note in the workspace,
\* alone or with a note of today that cannot be read.
RunNotes ==
  {[ws |-> {toISODate(RunClock.now - 24)}, cwd |-> {}, wsFails |-> {}, cwdFails |-> {}],
   [ws |-> {toISODate(RunClock.now - 24), toISODate(RunClock.now)}, cwd |-> {},
    wsFails |-> {toISODate(RunClock.now)}, cwdFails |-> {}]}

\* The i-th commit of a history of the full run: the newest was made one hour
\* before the run (2024-04-01), the others thirty hours before (2024-03-31);
\* all by the same author, in UTC.
RunCommit(i, kind) ==
  LET at == RunClock.now - (IF i = 1 THEN 1 ELSE 30)
  IN [h |-> hashOf(i), authored |-> at, zone |-> 0, committed |-> at,
      author |-> Me, kind |-> kind]

RunHistories ==
  UNION {{[i \in 1..n |-> RunCommit(i, kinds[i])] : kinds \in [1..n -> {"plain", "signed"}]} :
           n \in 0..MaxCommits}

\* What a repository answers to the log query: a failure, or its history.
RunReplies ==
  {[broken |-> TRUE, log |-> <<>>]} \cup {[broken |-> FALSE, log |-> h] : h \in RunHistories}

\* The directories of a workspace that hold the marker.
GitDirs(w) ==
  (IF w.rootGit THEN {WORKSPACE} ELSE {})
  \cup {join(WORKSPACE, e.name) : e \in {x \in Range(w.entries) : x.isDir /\ x.git}}

\* The number of commits in the histories of g.
RECURSIVE commitsIn(_, _)
commitsIn(g, dirs) ==
  IF dirs = {} THEN 0
  ELSE LET d == CHOOSE x \in dirs : TRUE
       IN Len(g[d].log) + commitsIn(g, dirs \ {d})

\* The repositories of a workspace of the full run: at most MaxCommits commits
\* in all.
RunGit(w) ==
  {g \in [GitDirs(w) -> RunReplies] : commitsIn(g, GitDirs(w)) <= MaxCommits}

\* What console.log writes: the progress line of a run in text mode, the
\* progress line of the AI block, and the output of the run.
scanning(c) ==
  [k |-> "scanning", workspace |-> WORKSPACE,
   author |-> IF c.author = <<>> THEN <<"a", "n", "y", "o", "n", "e">> ELSE c.author,
       days |-> c.days]

generating == [k |-> "generating"]

printed(out) == [k |-> "output", v |-> out]

\* The clock as one call of getMemoryLogs reads it: rs[1] at line 93 and the
\* rest at line 96, one reading for each iteration.
NotesClock(tz, rs) == [tz |-> tz, today |-> rs[1], d |-> Tail(rs)]

\* The readings the call made of rs: all of them, or those up to the
\* iteration that threw.
readingsMade(rs, result) == IF result.threw THEN SubSeq(rs, 1, result.i + 2) ELSE rs

\* The clock after a reading of instant t.
clockAt(t) == [clock EXCEPT !.now = t]

Idle ==
  /\ repos = <<>>
  /\ idx = 0
  /\ extracted = <<>>
  /\ allCommits = <<>>
  /\ memories = <<>>
  /\ data = buildData(<<>>, <<>>, cfg)
  /\ normalOut = <<>>
  /\ gemini = [threw |-> FALSE, error |-> FALSE, stdout |-> "", stderr |-> ""]
  /\ output = <<>>
  /\ stdout = <<>>
  /\ today = Undefined

Init ==
  /\ pc = "start"
  /\ clock = RunClock
  /\ fs \in RunWorkspaces
  /\ git \in RunGit(fs)
  /\ cfg \in RunConfigs
  /\ notesFs \in RunNotes
  /\ Idle

\* The progress line of text mode; const repos = getRepos(WORKSPACE).
Locate ==
  /\ pc = "start"
  /\ stdout' = IF cfg.json THEN <<>> ELSE <<scanning(cfg)>>
  /\ repos' = getRepos(fs, WORKSPACE)
  /\ idx' = 1
  /\ pc' = "extract"
  /\ UNCHANGED <<cfg, clock, today, fs, git, notesFs, extracted, allCommits, memories, data,
                 normalOut, gemini, output>>

\* One iteration of: for (const repo of repos) { getGitLogs; concat }.
ExtractRepo ==
  /\ pc = "extract"
  /\ idx <= Len(repos)
  /\ \E rs \in Readings(clock.now, 1, RunClock.now + MaxElapsed) :
       LET reply   == git[repos[idx]]
           commits == getGitLogs(reply, repos[idx], cfg.days, cfg.author, clockAt(rs[1]))
       IN /\ extracted' = Append(extracted,
                                 [repo |-> repos[idx],
                                  failed |-> queryFails(reply, authorFilter(cfg.author)),
                                  commits |-> commits])
          /\ allCommits' = IF Len(commits) > 0 THEN allCommits \o commits ELSE allCommits
          /\ clock' = clockAt(rs[1])
  /\ idx' = idx + 1
  /\ UNCHANGED <<pc, cfg, today, fs, git, notesFs, repos, memories, data, normalOut,
                 gemini, output, stdout>>

\* allCommits.sort(...); getMemoryLogs(DAYS); const data = {...}.  The sort
\* works in place, so that a throw of getMemoryLogs leaves the array sorted.
Aggregate ==
  /\ pc = "extract"
  /\ idx > Len(repos)
  /\ LET sorted == sort(allCommits)
     IN IF sorted.threw
          THEN /\ pc' = "crashed_sort"
               /\ UNCHANGED <<clock, today, allCommits, memories, data>>
          ELSE \E rs \in Readings(clock.now, cfg.days + 1, RunClock.now + MaxElapsed) :
                 LET mems == getMemoryLogs(cfg.days, NotesClock(clock.tz, rs), notesFs)
                     made == readingsMade(rs, mems)
                 IN /\ allCommits' = sorted.v
                    /\ today' = rs[1]
                    /\ clock' = clockAt(made[Len(made)])
                    /\ IF mems.threw
                         THEN /\ pc' = "crashed_notes"
                              /\ UNCHANGED <<memories, data>>
                         ELSE /\ pc' = "render"
                              /\ memories' = mems.v
                              /\ data' = buildData(sorted.v, mems.v, cfg)
  /\ UNCHANGED <<cfg, fs, git, notesFs, repos, idx, extracted, normalOut, gemini,
                 output, stdout>>

\* if (JSON_OUTPUT) { console.log(JSON.stringify(data)); return; }.
RenderJson ==
  /\ pc = "render"
  /\ cfg.json
  /\ output' = renderJson(data)
  /\ stdout' = Append(stdout, printed(renderJson(data)))
  /\ pc' = "done"
  /\ UNCHANGED <<cfg, clock, today, fs, git, notesFs, repos, idx, extracted, allCommits,
                 memories, data, normalOut, gemini>>

\* The Markdown output, up to the AI block; without --ai, console.log(output).
RenderText ==
  /\ pc = "render"
  /\ ~cfg.json
  /\ \E rs \in Readings(clock.now, 1, RunClock.now + MaxElapsed) :
       LET doc == renderText(data, clockAt(rs[1]))
       IN /\ clock' = clockAt(rs[1])
          /\ IF doc.threw
               THEN /\ pc' = "crashed_render"
                    /\ UNCHANGED <<normalOut, output, stdout>>
               ELSE /\ pc' = (IF cfg.ai THEN "ai" ELSE "done")
                    /\ normalOut' = doc.v
                    /\ output' = doc.v
                    /\ stdout' = IF cfg.ai THEN stdout ELSE Append(stdout, printed(doc.v))
  /\ UNCHANGED <<cfg, today, fs, git, notesFs, repos, idx, extracted, allCommits,
                 memories, data, gemini>>

\* if (USE_AI) { console.log(...); spawnSync('gemini', [prompt]) ... };
\* console.log(output).
AISummarize ==
  /\ pc = "ai"
  /\ \E r \in AIReplies :
       /\ gemini' = r
       /\ output' = aiOutput(output, r)
       /\ stdout' = stdout \o <<generating, printed(aiOutput(output, r))>>
  /\ pc' = "done"
  /\ UNCHANGED <<cfg, clock, today, fs, git, notesFs, repos, idx, extracted, allCommits,
                 memories, data, normalOut>>

Next == Locate \/ ExtractRepo \/ Aggregate \/ RenderJson \/ RenderText \/ AISummarize

Spec == Init /\ [][Next]_vars

(***************************************************************************)
(* getRepos alone, on every workspace directory of the bounds.             *)
(***************************************************************************)
NoNotes == [ws |-> {}, cwd |-> {}, wsFails |-> {}, cwdFails |-> {}]

InitLocator ==
  /\ pc = "call"
  /\ clock = RunClock
  /\ cfg = [days |-> 1, author |-> <<"m", "e">>, json |-> FALSE, ai |-> FALSE]
  /\ fs \in Workspaces
  /\ git = <<>>
  /\ notesFs = NoNotes
  /\ Idle

CallGetRepos ==
  /\ pc = "call"
  /\ repos' = getRepos(fs, WORKSPACE)
  /\ pc' = "returned"
  /\ UNCHANGED <<cfg, clock, today, fs, git, notesFs, idx, extracted, allCommits, memories,
                 data, normalOut, gemini, output, stdout>>

SpecLocator == InitLocator /\ [][CallGetRepos]_vars

(***************************************************************************)
(* getMemoryLogs alone, on every clock, day count and notes layout.        *)
(***************************************************************************)
\* The dates that may have a note path: 2024-03-29 .. 2024-04-02 and
\* 2024-05-01 in the workspace, 2024-03-30 .. 2024-04-01 in the current
\* working directory.
WsNoteDates ==
  {IsoOfDay(BaseInstant \div 24 + k) : k \in -3..1} \cup {IsoOfDay(BaseInstant \div 24 + 30)}

CwdNoteDates == {IsoOfDay(BaseInstant \div 24 + k) : k \in -2..0}

\* The notes directories: the note paths that exist and, among them, those
\* that cannot be read (2024-04-01 in the workspace, 2024-03-31 in the current
\* working directory).
NotesLayouts ==
  {n \in [ws : SUBSET WsNoteDates, cwd : SUBSET CwdNoteDates,
          wsFails : SUBSET {IsoOfDay(BaseInstant \div 24)},
          cwdFails : SUBSET {IsoOfDay(BaseInstant \div 24 - 1)}] :
     n.wsFails \subseteq n.ws /\ n.cwdFails \subseteq n.cwd}

InitNotes ==
  /\ pc = "call"
  /\ clock \in Clocks
  /\ cfg \in [days : 1..MaxDays, author : {<<"m", "e">>}, json : {FALSE}, ai : {FALSE}]
  /\ fs = [rootGit |-> FALSE, listable |-> TRUE, entries |-> <<>>]
  /\ git = <<>>
  /\ notesFs \in NotesLayouts
  /\ Idle

CallGetMemoryLogs ==
  /\ pc = "call"
  /\ \E rs \in Readings(clock.now, cfg.days + 1, clock.now + MaxElapsed) :
       LET mems == getMemoryLogs(cfg.days, NotesClock(clock.tz, rs), notesFs)
           made == readingsMade(rs, mems)
       IN /\ today' = rs[1]
          /\ clock' = clockAt(made[Len(made)])
          /\ IF mems.threw
               THEN /\ pc' = "threw"
                    /\ UNCHANGED memories
               ELSE /\ pc' = "returned"
                    /\ memories' = mems.v
  /\ UNCHANGED <<cfg, fs, git, notesFs, repos, idx, extracted, allCommits, data,
                 normalOut, gemini, output, stdout>>

SpecNotes == InitNotes /\ [][CallGetMemoryLogs]_vars

(***************************************************************************)
(* getGitLogs alone, on every clock, day count, author pattern and history *)
(* of one repository.                                                      *)
(***************************************************************************)
\* How many hours before the run a commit was committed.
CommitAges == {1, 14, 26, 70}

\* How a commit's author date relates to its commit date: the same instant
\* recorded in UTC, the same instant recorded in a zone nine hours ahead, or
\* an instant ten days earlier (a commit that was rebased or amended).
DateShapes ==
  {[back |-> 0, zone |-> 0], [back |-> 0, zone |-> 9], [back |-> 240, zone |-> 0]}

GitCommit(i, now, age, shape, kind, author) ==
  [h |-> hashOf(i), authored |-> now - age - shape.back, zone |-> shape.zone,
   committed |-> now - age, author |-> author, kind |-> kind]

\* The histories of the repository: none, one commit of any make, or two plain
\* commits in either order of commit date.
Histories(now) ==
  {<<>>}
  \cup {<<GitCommit(1, now, age, shape, kind, author)>> :
          age \in CommitAges, shape \in DateShapes, kind \in CommitKinds,
          author \in {Me, Al}}
  \cup {<<GitCommit(1, now, a1, [back |-> 0, zone |-> 0], "plain", Me),
          GitCommit(2, now, a2, [back |-> 0, zone |-> 0], "plain", Me)>> :
          a1 \in CommitAges, a2 \in CommitAges}

Replies(now) ==
  {[broken |-> TRUE, log |-> <<>>]}
  \cup {[broken |-> FALSE, log |-> h] : h \in Histories(now)}

\* --author values: none; patterns that match the name, the address or the
\* whole ident of one author; a pattern with a group, an alternation and an
\* interval; one with a bracket expression; one of two lines, in which the
\* shell drops a backslash; and one that regcomp rejects.
AuthorPatterns ==
  {<<>>,
   <<"m", "e">>,
   <<"m", "@">>,
   <<"^", "a", ".", "*", "y", ">", "$">>,
   <<"\\", "(", "m", "\\", "{", "1", "\\", "}", "e", "\\", "|", "z", "z", "\\", ")", " ", "<">>,
   <<"^", "[", "[", ":", "a", "l", "p", "h", "a", ":", "]", "]", "*", "l", "\\", "+", " ",
       "<">>,
   <<"z", "z", "\n", "^", "m", "\\", "$", "*", "e", " ">>,
   <<"\\", "(", "m", "e">>}

\* The workspace is itself the repository.
RootRepository ==
  [rootGit |-> TRUE, listable |-> TRUE,
   entries |-> <<[name |-> DotGit, isDir |-> TRUE, git |-> FALSE, nested |-> FALSE]>>]

InitGit ==
  /\ pc = "call"
  /\ clock \in Clocks
  /\ cfg \in [days : 1..MaxDays, author : AuthorPatterns, json : {FALSE}, ai : {FALSE}]
  /\ fs = RootRepository
  /\ git \in [{WORKSPACE} -> Replies(clock.now)]
  /\ notesFs = NoNotes
  /\ Idle

CallGetGitLogs ==
  /\ pc = "call"
  /\ \E rs \in Readings(clock.now, 1, clock.now + MaxElapsed) :
       /\ extracted' = <<[repo |-> WORKSPACE,
                          failed |-> queryFails(git[WORKSPACE], authorFilter(cfg.author)),
                          commits |-> getGitLogs(git[WORKSPACE], WORKSPACE, cfg.days,
                                                 cfg.author, clockAt(rs[1]))]>>
       /\ clock' = clockAt(rs[1])
  /\ pc' = "returned"
  /\ UNCHANGED <<cfg, today, fs, git, notesFs, repos, idx, allCommits, memories, data,
                 normalOut, gemini, output, stdout>>

SpecGit == InitGit /\ [][CallGetGitLogs]_vars

(***************************************************************************)
(* Properties.                                                             *)
(***************************************************************************)
\* The report model has been built.
DataBuilt == pc \in {"render", "ai", "done", "crashed_render"}

Crashed == pc \in {"crashed_sort", "crashed_render"}

\* What getGitLogs returned, repository by repository, in locator order.
PerRepo == [i \in 1..Len(extracted) |-> extracted[i].commits]

Count(s, x) == Cardinality({i \in 1..Len(s) : s[i] = x})

\* The text a comparison reads off a commit's date.
DateKey(c) == ToStr(c.date)

IsMalformed(c) == c.date = Undefined \/ c.msg = UndefinedStr

\* C1: in every report model, stats.totalCommits is the length of the commit
\* sequence (the number of commits the repositories returned) and
\* stats.reposTouched is the number of distinct repository names in it; both
\* are 0 when the sequence is empty.
C1_Stats ==
  DataBuilt =>
    /\ data.stats.totalCommits = Len(data.commits)
    /\ data.stats.totalCommits = Len(Concat(PerRepo))
    /\ data.stats.reposTouched = Cardinality({c.repo : c \in Range(data.commits)})
    /\ data.stats.reposTouched =
         Cardinality({basename(extracted[i].repo) :
                        i \in {j \in 1..Len(extracted) : extracted[j].commits # <<>>}})
    /\ data.commits = <<>> =>
         (data.stats.totalCommits = 0 /\ data.stats.reposTouched = 0)

\* A report of three commits from two repository names.
C1_Witness ==
  /\ DataBuilt
  /\ data.stats.totalCommits = 3
  /\ data.stats.reposTouched = 2

\* C2: the report's commit sequence is the concatenation of the per-repository
\* sequences (locator order) sorted by date text, descending, and stably: the
\* commits of one date keep the order they had in the concatenation.
C2_StableSort ==
  DataBuilt =>
    LET in  == Concat(PerRepo)
        out == data.commits
    IN /\ \A i \in 1..Len(extracted) : extracted[i].repo = repos[i]
       /\ Len(out) = Len(in)
       /\ \A i, j \in 1..Len(out) :
            i < j => localeCompare(DateKey(out[i]), DateKey(out[j])) >= 0
       /\ \A c \in Range(in) :
            SelectSeq(out, LAMBDA x : DateKey(x) = DateKey(c))
              = SelectSeq(in, LAMBDA x : DateKey(x) = DateKey(c))

\* A report whose sort moved a commit and kept a tie between two repositories
\* in locator order.
C2_Witness ==
  /\ DataBuilt
  /\ data.commits # Concat(PerRepo)
  /\ \E i, j \in 1..Len(data.commits) :
       /\ i < j
       /\ data.commits[i].date = data.commits[j].date
       /\ data.commits[i].repo # data.commits[j].repo

\* The index at which a repository name first appears in a commit sequence.
FirstIndex(commits, r) ==
  CHOOSE i \in 1..Len(commits) :
    commits[i].repo = r /\ \A j \in 1..(i - 1) : commits[j].repo # r

\* C3: in text mode with a non-empty commit sequence, the Code Activity section
\* holds one subsection per distinct repository name, in the order of first
\* appearance in the sorted commit sequence, each listing every commit of its
\* repository as one line; for every repository directory name (rendering
\* never fails on a name).
C3_Sections ==
  /\ pc # "crashed_render"
  /\ (pc \in {"ai", "done"} /\ ~cfg.json /\ data.commits # <<>>) =>
       LET heads == SelectSeq(normalOut, LAMBDA it : it.k = "repo")
           names == [i \in 1..Len(heads) |-> heads[i].name]
       IN /\ Range(names) = {c.repo : c \in Range(data.commits)}
          /\ \A i, j \in 1..Len(names) :
               i < j => FirstIndex(data.commits, names[i])
                          < FirstIndex(data.commits, names[j])
          /\ SelectSeq(normalOut, LAMBDA it : it.k \in {"repo", "commit", "blank"})
               = repoSections(data.commits, names)

\* C4: getRepos returns the root if it holds the marker, plus exactly the
\* immediate child directories that hold the marker and are not named .git or
\* node_modules; nothing deeper; and only the root when it cannot be listed.
C4_Locator ==
  pc = "returned" =>
    /\ Range(repos) =
         (IF fs.rootGit THEN {WORKSPACE} ELSE {})
         \cup (IF fs.listable
                 THEN {join(WORKSPACE, e.name) :
                         e \in {x \in Range(fs.entries) :
                                  x.isDir /\ x.git /\ x.name \notin {DotGit, NodeModules}}}
                 ELSE {})
    /\ Cardinality(Range(repos)) = Len(repos)
    /\ \A i \in 1..Len(repos) : Len(repos[i]) <= Len(WORKSPACE) + 1
    /\ ~fs.listable => \A i \in 1..Len(repos) : repos[i] = WORKSPACE

\* A listing with a repository under node_modules and a child repository that
\* has a repository nested in it: only the child is returned.
C4_Witness ==
  /\ pc = "returned"
  /\ \E e \in Range(fs.entries) : e.name = NodeModules /\ e.isDir /\ e.git
  /\ \E e \in Range(fs.entries) : e.name = <<"a", "p", "p">> /\ e.git /\ e.nested
  /\ repos = <<join(WORKSPACE, <<"a", "p", "p">>)>>

\* C5: when the log query of a repository fails, that repository yields no
\* commits and the run still completes: it does not abort, the report holds
\* exactly the commits of the other repositories, and the failing repository
\* is not counted in reposTouched.
C5_FailingRepo ==
  (\E i \in 1..Len(extracted) : extracted[i].failed) =>
    /\ ~Crashed
    /\ \A i \in 1..Len(extracted) : extracted[i].failed => extracted[i].commits = <<>>
    /\ DataBuilt =>
         LET others == Concat([i \in 1..Len(extracted) |->
                                 IF extracted[i].failed THEN <<>> ELSE extracted[i].commits])
         IN /\ Len(data.commits) = Len(others)
            /\ \A c \in Range(others) : Count(data.commits, c) = Count(others, c)
            /\ data.stats.reposTouched =
                 Cardinality({basename(extracted[i].repo) :
                                i \in {j \in 1..Len(extracted) :
                                         ~extracted[j].failed /\ extracted[j].commits # <<>>}})

\* The calendar day numbers "today" can stand for: the local one, and the UTC
\* one the report's title prints.
Todays(c) == {Today(c), c.now \div 24}

\* The clock at the reading getMemoryLogs keeps as today (line 93).
TodayClock == [now |-> today, tz |-> clock.tz]

\* The calendar dates of the d days that end with day number day.
Window(day, d) == {IsoOfDay(day - k) : k \in 0..(d - 1)}

\* C6: getMemoryLogs(D) returns, today first and counting backward, exactly one
\* entry for each of the D most recent calendar days that has a note file in
\* the workspace notes directory or else in the current directory's; no other
\* date, no date twice, and the workspace file supplies the content when both
\* exist (for either reading of "today").
C6_Notes ==
  pc = "returned" =>
    \E day \in Todays(TodayClock) :
      LET days    == [i \in 1..cfg.days |-> IsoOfDay(day - (i - 1))]
          present == SelectSeq(days, LAMBDA d : d \in notesFs.ws \cup notesFs.cwd)
      IN /\ Len(memories) = Len(present)
         /\ \A i \in 1..Len(memories) :
              /\ memories[i].date = present[i]
              /\ memories[i].content =
                   (IF present[i] \in notesFs.ws THEN WsContent ELSE CwdContent)
         /\ \A i, j \in 1..Len(memories) : memories[i].date = memories[j].date => i = j

\* C7: in text mode with AI summarization, the AI call never aborts the run and
\* the normal report is kept unchanged in the output: followed by a failure
\* notice when the invocation fails or writes only to its error stream, else
\* preceded by the narrative and a divider; the report model is the one the
\* aggregator built, and the output is what the run prints last, after its
\* two progress lines.
C7_AISummary ==
  (pc = "done" /\ ~cfg.json /\ cfg.ai) =>
    /\ normalOut = renderText(buildData(allCommits, memories, cfg), clock).v
    /\ data = buildData(allCommits, memories, cfg)
    /\ IF gemini.threw \/ gemini.error \/ (gemini.stderr # "" /\ gemini.stdout = "")
         THEN /\ Len(output) = Len(normalOut) + 1
              /\ SubSeq(output, 1, Len(normalOut)) = normalOut
              /\ output[Len(output)].k = "aiFailed"
         ELSE /\ Len(output) = Len(normalOut) + 3
              /\ SubSeq(output, 4, Len(output)) = normalOut
              /\ output[1].k = "aiTitle"
              /\ output[2] = [k |-> "narrative", text |-> gemini.stdout]
              /\ output[3].k = "divider"
    /\ stdout = <<scanning(cfg), generating, printed(output)>>

\* A finished run whose AI call succeeded on a report with commits.
C7_Witness ==
  /\ pc = "done"
  /\ cfg.ai
  /\ gemini.stdout = "narrative"
  /\ data.commits # <<>>
  /\ Len(output) = Len(normalOut) + 3

\* C8: every commit record getGitLogs returns for a day count D has a date
\* among the D calendar days that end today, the days of the note window (for
\* either reading of "today").
C8_CommitWindow ==
  pc = "returned" =>
    \E day \in Todays(clock) :
      \A i \in 1..Len(extracted) :
        \A c \in Range(extracted[i].commits) :
          c.date # Undefined => c.date \in Window(day, cfg.days)

\* C9: a log line with fewer than three fields gives a record with missing
\* fields and is not fatal: the run still sorts, aggregates and renders.
C9_MalformedLine ==
  (\E i \in 1..Len(extracted) : \E c \in Range(extracted[i].commits) : IsMalformed(c))
    => pc # "crashed_sort"

\* C10: every commit's repo name is the base name of exactly one located
\* repository.
C10_RepoNames ==
  DataBuilt =>
    \A c \in Range(data.commits) :
      Cardinality({i \in 1..Len(repos) : basename(repos[i]) = c.repo}) = 1

====
